---- MODULE Spec2Model ----
(***************************************************************************)
(* Copier reconciliation component of the Odoo operator                    *)
(* (pkg/controller/odooinstance/components/copier.go).                     *)
(*                                                                         *)
(* The state is the declarative store (the OdooInstance objects and the    *)
(* batch Jobs) plus a record of the last call made to the component, with  *)
(* the store calls it issued and the result it returned, and the passes    *)
(* in flight, each between two of its store calls.                         *)
(***************************************************************************)
EXTENDS Integers, Sequences, FiniteSets, TLC

VARIABLES instances, jobs, last, inflight

vars == <<instances, jobs, last, inflight>>

(***************************************************************************)
(* Bounds of the model.                                                    *)
(***************************************************************************)
\* Cap of a job's Status.Succeeded / Status.Failed counters.
MaxCount == 1

\* The nil pointer / nil error / absent object.
Nil == "nil"

\* The OdooInstance objects of the store, by name.
Names == {"child-1", "child-2", "root-1"}

Namespaces == {"ns", "other"}

Clusters == {"c1", "c2"}

\* Values of the label instance.odoo.io/hostname carried by the other instances.
Hostnames == {"root-1", "root-2"}

\* Errors a store call or the template renderer can fail with.
StoreErrs == {"Timeout"}

(***************************************************************************)
(* Status conditions of an instance (pkg/apis/instance/v1beta1).           *)
(***************************************************************************)
OdooInstanceStatusConditionTypeCreated == "Created"

\* The nil *OdooInstanceStatusCondition.
NilCondition == [type |-> Nil, status |-> Nil]

\* instance.GetStatusCondition(t): the condition of type t, nil when absent.
GetStatusCondition(conditions, t) ==
    IF \E k \in 1..Len(conditions) : conditions[k].type = t
    THEN conditions[CHOOSE k \in 1..Len(conditions) :
                        /\ conditions[k].type = t
                        /\ \A m \in 1..(k - 1) : conditions[m].type # t]
    ELSE NilCondition

\* Replace the condition of c's type, or append c when the type is absent.
SetStatusCondition(conditions, c) ==
    IF \E k \in 1..Len(conditions) : conditions[k].type = c.type
    THEN [k \in 1..Len(conditions) |->
             IF conditions[k].type = c.type THEN c ELSE conditions[k]]
    ELSE Append(conditions, c)

\* instance.SetStatusConditionCopyJobCreationCreated()
SetStatusConditionCopyJobCreationCreated(conditions) ==
    SetStatusCondition(conditions,
        [type |-> OdooInstanceStatusConditionTypeCreated, status |-> "initiated"])

\* instance.SetStatusConditionCopyJobSuccessCreated()
SetStatusConditionCopyJobSuccessCreated(conditions) ==
    SetStatusCondition(conditions,
        [type |-> OdooInstanceStatusConditionTypeCreated, status |-> "succeeded"])

(***************************************************************************)
(* The store (controller-runtime client) and the template renderer.        *)
(***************************************************************************)
\* labels.SelectorFromSet(sel) applied by List within one namespace.
List(namespace, sel) ==
    {p \in Names :
        /\ instances[p].namespace = namespace
        /\ \A k \in DOMAIN sel : instances[p].labels[k] = sel[k]}

\* The jobs of the store with the given name and namespace (Get).
Get(key) ==
    {j \in jobs : j.namespace = key.namespace /\ j.name = key.name}

\* A variant that deletes every job of the namespace instead of the one given.
Delete_AllInNamespace(existing) ==
    {j \in jobs : j.namespace # existing.namespace}

\* The jobs left in the store by ctx.Delete(existing): the job is deleted by
\* its name and namespace.
Delete(existing) == jobs \ Get([namespace |-> existing.namespace,
                                name |-> existing.name])

\* The jobs of the store whose controller owner reference names instance i.
JobsOwnedBy(i) == {j \in jobs : j.owner = i}

\* Outcomes of a fallible external call: nil, or one of its errors when the
\* pass is one in which calls may fail.
Outcomes(faulty, errs) == IF faulty THEN {Nil} \cup errs ELSE {Nil}

\* Errors of the renderer, of SetControllerReference (the owner's kind is not
\* in the scheme) and of a Create that lost the race for the job's name.
RenderErrs == {"TemplateError"}
OwnerErrs == {"NoKind"}
AlreadyExists == "AlreadyExists"

\* ctx.GetTemplate(comp.templatePath, extra): the copier job of the instance.
GetTemplate(instance, extra) ==
    [namespace    |-> instance.namespace,
     name         |-> "copier-" \o instance.name,
     owner        |-> Nil,
     fromDatabase |-> extra.FromDatabase,
     succeeded    |-> 0,
     failed       |-> 0]

\* controllerutil.SetControllerReference(instance, job, ctx.Scheme)
SetControllerReference(instance, job) ==
    [job EXCEPT !.owner = instance.name]

\* client.PropagationPolicy(metav1.DeletePropagationBackground)
DeletePropagationBackground == "Background"

(***************************************************************************)
(* copierComponent.IsReconcilable                                          *)
(***************************************************************************)
\* A variant that forgets the check of the parent hostname.
IsReconcilable_NoParentCheck(instance) ==
    IF GetStatusCondition(instance.conditions,
                          OdooInstanceStatusConditionTypeCreated) # NilCondition
    THEN FALSE
    ELSE TRUE

\* A variant that forgets the check of the "Created" condition.
IsReconcilable_NoConditionCheck(instance) ==
    IF instance.parentHostname = Nil THEN FALSE ELSE TRUE

IsReconcilable(instance) ==
    IF instance.parentHostname = Nil
    THEN FALSE
    ELSE IF GetStatusCondition(instance.conditions,
                               OdooInstanceStatusConditionTypeCreated) # NilCondition
    THEN FALSE
    ELSE TRUE

(***************************************************************************)
(* copierComponent.Reconcile, decision by decision.                        *)
(***************************************************************************)
\* The label selector of the parent lookup.
MatchingLabels(instance) ==
    [cluster  |-> instance.labels.cluster,
     hostname |-> instance.parentHostname]

\* A variant that does not ask for a requeue when no parent is found.
ParentLookup_NoRequeue(n) ==
    IF n > 1
    THEN [proceed |-> FALSE, requeue |-> FALSE,
          err |-> "more than one parent instance found"]
    ELSE IF n < 1
    THEN [proceed |-> FALSE, requeue |-> FALSE, err |-> "No parent instance found"]
    ELSE [proceed |-> TRUE, requeue |-> FALSE, err |-> Nil]

\* A variant that takes the first of several parents instead of failing.
ParentLookup_FirstOfMany(n) ==
    IF n < 1
    THEN [proceed |-> FALSE, requeue |-> TRUE, err |-> "No parent instance found"]
    ELSE [proceed |-> TRUE, requeue |-> FALSE, err |-> Nil]

\* The outcome of the parent lookup for n listed items: the result to return
\* at once, or proceed.
ParentLookup(n) ==
    IF n > 1
    THEN [proceed |-> FALSE, requeue |-> FALSE,
          err |-> "more than one parent instance found"]
    ELSE IF n < 1
    THEN [proceed |-> FALSE, requeue |-> TRUE, err |-> "No parent instance found"]
    ELSE [proceed |-> TRUE, requeue |-> FALSE, err |-> Nil]

\* A variant that looks the job up under the name of the source database.
JobKey_WrongName(job) == [namespace |-> job.namespace, name |-> job.fromDatabase]

\* types.NamespacedName{Name: job.Name, Namespace: job.Namespace}
JobKey(job) == [namespace |-> job.namespace, name |-> job.name]

\* A variant that takes any error of the Get for "not found".
IsNotFound_AnyError(err) == TRUE

\* errors.IsNotFound(err)
IsNotFound(err) == err = "NotFound"

\* A variant that treats a failed Create as done.
CreateFailed_Swallow(err) == [requeue |-> FALSE, err |-> Nil]

\* The result returned when ctx.Create fails.
CreateFailed(err) == [requeue |-> TRUE, err |-> err]

\* The result returned when ctx.Delete fails.
DeleteFailed(err) == [requeue |-> TRUE, err |-> err]

\* A variant that asks for a requeue although the job was started.
JobStarted_Requeue == [requeue |-> TRUE, err |-> Nil]

\* The result returned once the job is started.
JobStarted == [requeue |-> FALSE, err |-> Nil]

\* The result returned at the end of the pass over an existing job.
Done == [requeue |-> FALSE, err |-> Nil]

\* A variant that asks for more than one success.
JobSucceeded_OffByOne(existing) == existing.succeeded > 1

\* A variant that takes any finished job for a succeeded one.
JobSucceeded_OrFailed(existing) == existing.succeeded > 0 \/ existing.failed > 0

\* A variant that takes a job without any success for a succeeded one.
JobSucceeded_AtLeastZero(existing) == existing.succeeded >= 0

\* A variant that lets a failure hide the success of a job.
JobSucceeded_UnlessFailed(existing) ==
    existing.succeeded > 0 /\ existing.failed = 0

\* existing.Status.Succeeded > 0
JobSucceeded(existing) == existing.succeeded > 0

\* existing.Status.Failed > 0
JobFailed(existing) == existing.failed > 0

\* One call issued during a pass: what was called, on what, and its result.
Call(name, arg, result) == [call |-> name, arg |-> arg, result |-> result]

(***************************************************************************)
(* Passes.  Reconcile holds no lock: between its blocking store calls      *)
(* (List line 90, Get line 111, Create line 122 or Delete line 144) the    *)
(* job controller, other passes and other clients act on the store.  A     *)
(* pass is one of Passes.  It writes conditions on its copy of the         *)
(* instance only (lines 115, 141): the store keeps the conditions it had   *)
(* until the Driver, once Reconcile returned, stores the status of that    *)
(* copy in a store call of its own, which may fail.                        *)
(***************************************************************************)
Passes == {"pass-1", "pass-2"}

\* The passes of a controller that runs one pass at a time.
Workers == {"pass-1"}

\* What is known of a pass: where it is ("idle", "listed" once List and the
\* render returned, "looked" once Get returned, "returned" once Reconcile
\* returned with conditions the Driver has yet to store), its instance, the
\* job it rendered, the job its Get saw, the calls it issued so far, and the
\* conditions of its copy of the instance, read from the store when the pass
\* started.  Two marks follow
\* the race on Create: beaten, set on a pass that saw no job when another
\* pass's Create for the same job commits; lost, set on a pass whose own
\* Create found the name taken or failed after it was beaten, and kept for
\* the passes that retry it.  Both are dropped when the job is removed from
\* the store.
NoPass == [pc |-> "idle", instance |-> Nil, job |-> {}, seen |-> {},
           calls |-> <<>>, status |-> <<>>, beaten |-> FALSE, lost |-> FALSE]

\* No call of the component has returned in the last step.
Idle == [op |-> "None", instance |-> Nil, calls |-> <<>>, requeue |-> FALSE,
         err |-> Nil, reconcilable |-> FALSE, logged |-> FALSE,
         conditions |-> <<>>, after |-> <<>>, job |-> {}, seen |-> {},
         beaten |-> FALSE, lost |-> FALSE]

\* The record of a call that returned: the calls the pass issued in order,
\* what it returned and logged, what its Get saw, the instance's job in the
\* store right before the step that returned, and the conditions of the
\* pass's copy of the instance when the call was made and when it returned.
CallRecord(op, i, pass, conditions, calls, requeue, err, reconcilable, logged) ==
    [op           |-> op,
     instance     |-> i,
     calls        |-> calls,
     requeue      |-> requeue,
     err          |-> err,
     reconcilable |-> reconcilable,
     logged       |-> logged,
     conditions   |-> pass.status,
     after        |-> conditions,
     job          |-> JobsOwnedBy(i),
     seen         |-> pass.seen,
     beaten       |-> pass.beaten,
     lost         |-> pass.lost]

\* What a pass p keeps of the race on the job of instance i when that job is
\* created or removed by someone else.
Noted(p, i, created, removed) ==
    IF p.instance # i THEN p
    ELSE LET q == [p EXCEPT
                     !.beaten = IF removed THEN FALSE
                                ELSE @ \/ (created /\ p.pc = "looked" /\ p.seen = {}),
                     !.lost   = @ /\ ~removed]
         IN  IF q.pc = "idle" /\ ~q.lost THEN NoPass ELSE q

\* Whether a pass wrote a condition on its copy of the instance.
WroteCondition(calls) ==
    \E k \in 1..Len(calls) : calls[k].call = "SetStatusCondition"

\* Whether a pass's Create found the name taken.
FoundNameTaken(calls) ==
    \E k \in 1..Len(calls) :
        calls[k].call = "Create" /\ calls[k].result = AlreadyExists

\* Whether a pass's Create failed.
CreateRefused(calls) ==
    \E k \in 1..Len(calls) :
        calls[k].call = "Create" /\ calls[k].result # Nil

\* A pass that is over, with the mark it leaves to the passes that retry it.
Over(i, lost) ==
    IF lost THEN [NoPass EXCEPT !.instance = i, !.lost = TRUE] ELSE NoPass

\* Reconcile returns in pass w: the store holds jobs2 and the instances it
\* held, and the copy of the instance carries conditions.  When the pass
\* wrote a condition the Driver has the status of the copy to store, else
\* the pass is over.
Return(w, pass, conditions, jobs2, calls, requeue, err, logged) ==
    LET i       == pass.instance
        created == jobs2 \ jobs # {}
        removed == jobs \ jobs2 # {}
        lost    == /\ \/ pass.lost
                      \/ FoundNameTaken(calls)
                      \/ pass.beaten /\ CreateRefused(calls)
                   /\ ~removed
    IN
    /\ jobs' = jobs2
    /\ last' = CallRecord("Reconcile", i, pass, conditions, calls, requeue, err,
                          FALSE, logged)
    /\ inflight' = [v \in Passes |->
                      IF v = w
                      THEN IF WroteCondition(calls)
                           THEN [NoPass EXCEPT !.pc = "returned", !.instance = i,
                                               !.status = conditions, !.lost = lost]
                           ELSE Over(i, lost)
                      ELSE Noted(inflight[v], i, created, removed)]
    /\ UNCHANGED instances

\* The Driver stores the status of the copy of the instance that pass w
\* returned; the call may fail, and the store then keeps the conditions it
\* has.
UpdateStatus(w, faulty) ==
    LET pass == inflight[w]
        i    == pass.instance
    IN
    /\ pass.pc = "returned"
    /\ \E updateErr \in Outcomes(faulty, StoreErrs) :
         /\ instances' = IF updateErr = Nil
                         THEN [instances EXCEPT ![i].conditions = pass.status]
                         ELSE instances
         /\ last' = [Idle EXCEPT
                       !.op         = IF updateErr = Nil THEN "UpdateStatus"
                                      ELSE "UpdateStatusFailed",
                       !.instance   = i,
                       !.err        = updateErr,
                       !.conditions = instances[i].conditions,
                       !.after      = pass.status]
    /\ inflight' = [inflight EXCEPT ![w] = Over(i, pass.lost)]
    /\ UNCHANGED jobs

\* The pass goes on to its next store call.
Continue(w, pass) ==
    /\ inflight' = [inflight EXCEPT ![w] = pass]
    /\ last' = Idle
    /\ UNCHANGED <<instances, jobs>>

\* Lines 80-107: pass w starts for instance i, lists the parents and renders
\* the job; in a faulty pass the store and the renderer may fail.
ReconcileList(w, i, faulty) ==
    LET instance == instances[i]
        pass     == [NoPass EXCEPT
                       !.instance = i,
                       !.status   = instance.conditions,
                       !.lost     = inflight[w].lost /\ inflight[w].instance = i]
    IN
    /\ inflight[w].pc = "idle"
    /\ IF instance.parentHostname = Nil
       THEN \* *instance.Spec.ParentHostname with a nil pointer
            Return(w, pass, pass.status, jobs, <<>>, FALSE,
                   "panic: nil pointer dereference", FALSE)
       ELSE
       \E listErr \in Outcomes(faulty, StoreErrs) :
         LET calls1 == <<Call("List", instance.parentHostname, listErr)>> IN
         IF listErr # Nil
         THEN Return(w, pass, pass.status, jobs, calls1, FALSE, listErr, FALSE)
         ELSE
         LET items  == List(instance.namespace, MatchingLabels(instance))
             lookup == ParentLookup(Cardinality(items))
         IN
         IF ~lookup.proceed
         THEN Return(w, pass, pass.status, jobs, calls1,
                     lookup.requeue, lookup.err, FALSE)
         ELSE
         LET parent == CHOOSE p \in items : TRUE
             extra  == [FromDatabase |-> instances[parent].hostname]
         IN
         \E renderErr \in Outcomes(faulty, RenderErrs) :
           LET calls2 == Append(calls1, Call("GetTemplate", extra.FromDatabase, renderErr))
           IN
           IF renderErr # Nil
           THEN Return(w, pass, pass.status, jobs, calls2, FALSE, renderErr, FALSE)
           ELSE Continue(w, [pass EXCEPT !.pc = "listed",
                                         !.job = {GetTemplate(instance, extra)},
                                         !.calls = calls2])

\* Lines 110-132: the pass looks its job up in the store as it is now.
ReconcileGet(w, faulty) ==
    LET pass  == inflight[w]
        job   == CHOOSE j \in pass.job : TRUE
        found == Get(JobKey(job))
    IN
    /\ pass.pc = "listed"
    /\ \E getErr \in Outcomes(faulty, StoreErrs) :
         LET err   == IF getErr # Nil THEN getErr
                      ELSE IF found = {} THEN "NotFound" ELSE Nil
             calls == Append(pass.calls, Call("Get", job.name, err))
         IN
         IF err # Nil /\ IsNotFound(err)
         THEN Continue(w, [pass EXCEPT !.pc = "looked", !.seen = {}, !.calls = calls])
         ELSE IF err # Nil
         THEN Return(w, pass, pass.status, jobs, calls, FALSE, err, FALSE)
         ELSE Continue(w, [pass EXCEPT !.pc = "looked", !.seen = found, !.calls = calls])

\* A variant that marks the instance only once the job is created.
ReconcileCreate_MarkAfterCreate(w, faulty) ==
    LET pass       == inflight[w]
        instance   == instances[pass.instance]
        job        == CHOOSE j \in pass.job : TRUE
        conditions == SetStatusConditionCopyJobCreationCreated(pass.status)
        owned      == SetControllerReference(instance, job)
    IN  \E ownerErr \in Outcomes(faulty, OwnerErrs) :
          LET calls2 == Append(pass.calls,
                               Call("SetControllerReference", job.name, ownerErr))
          IN
          IF ownerErr # Nil
          THEN Return(w, pass, pass.status, jobs, calls2, FALSE, ownerErr, FALSE)
          ELSE \E createErr \in
                      (IF Get(JobKey(owned)) # {}
                       THEN {AlreadyExists} \cup (Outcomes(faulty, StoreErrs) \ {Nil})
                       ELSE Outcomes(faulty, StoreErrs)) :
                 LET calls3 == Append(calls2, Call("Create", owned.name, createErr))
                 IN
                 IF createErr # Nil
                 THEN Return(w, pass, pass.status, jobs, calls3,
                             CreateFailed(createErr).requeue,
                             CreateFailed(createErr).err, FALSE)
                 ELSE Return(w, pass, conditions, jobs \cup {owned},
                             Append(calls3, Call("SetStatusCondition", "initiated", Nil)),
                             JobStarted.requeue, JobStarted.err, FALSE)

\* Lines 112-128: the Get answered NotFound.  The Create is served by the
\* store as it is now: the name may have been taken since the Get, and the
\* store then answers AlreadyExists unless the call fails before that.
ReconcileCreate(w, faulty) ==
    LET pass       == inflight[w]
        instance   == instances[pass.instance]
        job        == CHOOSE j \in pass.job : TRUE
        conditions == SetStatusConditionCopyJobCreationCreated(pass.status)
        calls1     == Append(pass.calls, Call("SetStatusCondition", "initiated", Nil))
        owned      == SetControllerReference(instance, job)
    IN  \E ownerErr \in Outcomes(faulty, OwnerErrs) :
          LET calls2 == Append(calls1, Call("SetControllerReference", job.name, ownerErr))
          IN
          IF ownerErr # Nil
          THEN Return(w, pass, conditions, jobs, calls2, FALSE, ownerErr, FALSE)
          ELSE \E createErr \in
                      (IF Get(JobKey(owned)) # {}
                       THEN {AlreadyExists} \cup (Outcomes(faulty, StoreErrs) \ {Nil})
                       ELSE Outcomes(faulty, StoreErrs)) :
                 LET calls3 == Append(calls2, Call("Create", owned.name, createErr))
                 IN
                 IF createErr # Nil
                 THEN Return(w, pass, conditions, jobs, calls3,
                             CreateFailed(createErr).requeue,
                             CreateFailed(createErr).err, FALSE)
                 ELSE Return(w, pass, conditions, jobs \cup {owned}, calls3,
                             JobStarted.requeue, JobStarted.err, FALSE)

\* A variant that tries the Delete a second time within the pass when it
\* failed.
ReconcileExisting_RetryDelete(w, faulty) ==
    LET pass     == inflight[w]
        existing == CHOOSE j \in pass.seen : TRUE
    IN
    IF JobSucceeded(existing)
    THEN LET conditions ==
                 SetStatusConditionCopyJobSuccessCreated(pass.status)
             calls1 == Append(pass.calls, Call("SetStatusCondition", "succeeded", Nil))
         IN  \E deleteErr \in
                   (IF Get(JobKey(existing)) = {}
                    THEN {"NotFound"} \cup (Outcomes(faulty, StoreErrs) \ {Nil})
                    ELSE Outcomes(faulty, StoreErrs)) :
               LET calls2 == Append(calls1, Call("Delete",
                                 DeletePropagationBackground, deleteErr))
               IN
               IF deleteErr # Nil
               THEN Return(w, pass, conditions, Delete(existing),
                           Append(calls2, Call("Delete",
                                 DeletePropagationBackground, Nil)),
                           Done.requeue, Done.err, JobFailed(existing))
               ELSE Return(w, pass, conditions, Delete(existing), calls2,
                           Done.requeue, Done.err, JobFailed(existing))
    ELSE Return(w, pass, pass.status, jobs, pass.calls, Done.requeue, Done.err,
                JobFailed(existing))

\* Lines 134-156: the Get answered with the job.  The pass decides on the
\* copy of the job its Get returned; the Delete is served by the store as it
\* is now, where the job may have changed since or may be gone, and the
\* store then answers NotFound unless the call fails before that.
ReconcileExisting(w, faulty) ==
    LET pass     == inflight[w]
        existing == CHOOSE j \in pass.seen : TRUE
    IN
    IF JobSucceeded(existing)
    THEN LET conditions ==
                 SetStatusConditionCopyJobSuccessCreated(pass.status)
             calls1 == Append(pass.calls, Call("SetStatusCondition", "succeeded", Nil))
         IN  \E deleteErr \in
                   (IF Get(JobKey(existing)) = {}
                    THEN {"NotFound"} \cup (Outcomes(faulty, StoreErrs) \ {Nil})
                    ELSE Outcomes(faulty, StoreErrs)) :
               LET calls2 == Append(calls1, Call("Delete",
                                 DeletePropagationBackground, deleteErr))
               IN
               IF deleteErr # Nil
               THEN Return(w, pass, conditions, jobs, calls2,
                           DeleteFailed(deleteErr).requeue,
                           DeleteFailed(deleteErr).err, FALSE)
               ELSE Return(w, pass, conditions, Delete(existing), calls2,
                           Done.requeue, Done.err, JobFailed(existing))
    ELSE Return(w, pass, pass.status, jobs, pass.calls, Done.requeue, Done.err,
                JobFailed(existing))

\* Lines 112-156: the pass acts on what its Get answered.
ReconcileFinish(w, faulty) ==
    /\ inflight[w].pc = "looked"
    /\ LET err == inflight[w].calls[Len(inflight[w].calls)].result IN
       IF err # Nil /\ IsNotFound(err)
       THEN ReconcileCreate(w, faulty)
       ELSE ReconcileExisting(w, faulty)

\* A variant of the check that marks the instance it was asked about.
IsReconcilableCall_Marks(i) ==
    /\ last' = CallRecord("IsReconcilable", i,
                          [NoPass EXCEPT !.status = instances[i].conditions],
                          instances[i].conditions,
                          <<>>, FALSE, Nil,
                          IsReconcilable(instances[i]), FALSE)
    /\ instances' = [instances EXCEPT ![i].conditions =
                         SetStatusConditionCopyJobCreationCreated(@)]
    /\ UNCHANGED <<jobs, inflight>>

\* The Driver asks whether the component has work for instance i.
IsReconcilableCall(i) ==
    /\ last' = CallRecord("IsReconcilable", i,
                          [NoPass EXCEPT !.status = instances[i].conditions],
                          instances[i].conditions,
                          <<>>, FALSE, Nil,
                          IsReconcilable(instances[i]), FALSE)
    /\ UNCHANGED <<instances, jobs, inflight>>

\* The Driver starts a pass for instance i as w: it runs at most one pass
\* per instance at a time, and Reconcile only when IsReconcilable answers
\* true.
DriverPass(w, i, faulty) ==
    /\ inflight[w].pc = "idle"
    /\ \A v \in Passes : inflight[v].pc # "idle" => inflight[v].instance # i
    /\ IF IsReconcilable(instances[i])
       THEN ReconcileList(w, i, faulty)
       ELSE IsReconcilableCall(i)

(***************************************************************************)
(* The environment: the job controller counts the job's finished pods,     *)
(* and other clients of the store may delete a job.                        *)
(***************************************************************************)
JobSucceeds(j) ==
    /\ j \in jobs
    /\ j.succeeded < MaxCount
    /\ jobs' = (jobs \ {j}) \cup {[j EXCEPT !.succeeded = @ + 1]}
    /\ last' = Idle
    /\ UNCHANGED <<instances, inflight>>

JobFails(j) ==
    /\ j \in jobs
    /\ j.failed < MaxCount
    /\ jobs' = (jobs \ {j}) \cup {[j EXCEPT !.failed = @ + 1]}
    /\ last' = Idle
    /\ UNCHANGED <<instances, inflight>>

\* Another client of the store (an operator, the garbage collector) deletes
\* the job.
JobRemoved(j) ==
    /\ j \in jobs
    /\ jobs' = jobs \ {j}
    /\ inflight' = [v \in Passes |-> Noted(inflight[v], j.owner, FALSE, TRUE)]
    /\ last' = Idle
    /\ UNCHANGED instances

(***************************************************************************)
(* The instances of the store, as the provisioning step created them.      *)
(***************************************************************************)
\* Conditions an instance may carry before the copier ever runs: none, one
\* written by another component, or the "Created" of the initializer.
OtherCondition == <<[type |-> "Reconciled", status |-> "true"]>>
InitializedCondition ==
    <<[type |-> OdooInstanceStatusConditionTypeCreated, status |-> "initialized"]>>

Instance(name, namespace, cluster, hostname, parent, conditions) ==
    [namespace      |-> namespace,
     name           |-> name,
     labels         |-> [cluster |-> cluster, hostname |-> hostname],
     hostname       |-> hostname,
     parentHostname |-> parent,
     conditions     |-> conditions]

\* child-1 is a copy of root-1, or a root.  child-2 is a second copy of
\* root-1, or a root that may answer to root-1's hostname.  root-1 is where
\* child-1 looks for its parent, or in another namespace, or in another
\* cluster.
Provisioned ==
    \E p1 \in {Nil, "root-1"}, p2 \in {Nil, "root-1"},
       n3 \in Namespaces, c3 \in Clusters, h2 \in Hostnames,
       s1 \in {<<>>, OtherCondition}, s3 \in {<<>>, InitializedCondition} :
      /\ instances =
         [n \in Names |->
            CASE n = "child-1" -> Instance(n, "ns", "c1", "child-1", p1, s1)
              [] n = "child-2" -> Instance(n, "ns", "c1", h2, p2, <<>>)
              [] n = "root-1"  -> Instance(n, n3, c3, "root-1", Nil, s3)]
      /\ p2 = Nil \/ h2 # "root-1"
      /\ n3 = "ns" \/ c3 = "c1"
      /\ s3 = <<>> \/ (n3 = "ns" /\ c3 = "c1" /\ h2 = "root-1")
      /\ s1 = <<>> \/ (p1 # Nil /\ h2 # "root-1")

\* No job yet, no call made, no pass in flight.
Fresh ==
    /\ jobs = {}
    /\ last = Idle
    /\ inflight = [w \in Passes |-> NoPass]

\* The stores where child-2 is not a copy.
Init ==
    /\ Provisioned
    /\ instances["child-2"].parentHostname = Nil
    /\ Fresh

\* Reconcile and IsReconcilable called for any instance at any time, two
\* passes at a time for the same instance or for different ones, with calls
\* that may fail, while the other pass, the job controller and other clients
\* act on the store between the calls of a pass and before the Driver stores
\* the status the pass returned.
Next ==
    \/ \E i \in Names : IsReconcilableCall(i)
    \/ \E w \in Passes, i \in Names : ReconcileList(w, i, TRUE)
    \/ \E w \in Passes : ReconcileGet(w, TRUE)
    \/ \E w \in Passes : ReconcileFinish(w, TRUE)
    \/ \E w \in Passes : UpdateStatus(w, TRUE)
    \/ \E j \in jobs : JobSucceeds(j)
    \/ \E j \in jobs : JobFails(j)
    \/ \E j \in jobs : JobRemoved(j)

Spec == Init /\ [][Next]_vars

\* The stores where child-1 and child-2 are both copies of root-1 and find
\* it, not yet initialized.
InitPair ==
    /\ Provisioned
    /\ instances["root-1"].conditions = <<>>
    /\ \A i \in {"child-1", "child-2"} :
         /\ instances[i].parentHostname # Nil
         /\ List(instances[i].namespace, MatchingLabels(instances[i])) = {"root-1"}
    /\ Fresh

\* The instance each pass serves when the two copies are reconciled at the
\* same time.
Served(w) == IF w = "pass-1" THEN "child-1" ELSE "child-2"

\* One pass for each of the two copies, interleaved call by call.
NextPair ==
    \/ \E w \in Passes : ReconcileList(w, Served(w), TRUE)
    \/ \E w \in Passes : ReconcileGet(w, TRUE)
    \/ \E w \in Passes : ReconcileFinish(w, TRUE)
    \/ \E w \in Passes : UpdateStatus(w, TRUE)
    \/ \E j \in jobs : JobSucceeds(j)
    \/ \E j \in jobs : JobFails(j)
    \/ \E j \in jobs : JobRemoved(j)

SpecPair == InitPair /\ [][NextPair]_vars

\* The Driver of the claims about progress: one pass at a time, gated by
\* IsReconcilable, calls that succeed, the status of each pass stored, fair
\* scheduling of every instance and of the pass in flight, and jobs that no
\* one else deletes and that eventually report success.
NextDriver ==
    \/ \E w \in Workers, i \in Names : DriverPass(w, i, FALSE)
    \/ \E w \in Workers : ReconcileGet(w, FALSE)
    \/ \E w \in Workers : ReconcileFinish(w, FALSE)
    \/ \E w \in Workers : UpdateStatus(w, FALSE)
    \/ \E j \in jobs : JobSucceeds(j)
    \/ \E j \in jobs : JobFails(j)

\* Every instance gets a pass ever again, a pass goes on, its status is
\* stored, and a job that can report success does.
DriverFairness ==
    /\ \A i \in Names : SF_vars(\E w \in Workers : DriverPass(w, i, FALSE))
    /\ \A w \in Workers : WF_vars(ReconcileGet(w, FALSE))
    /\ \A w \in Workers : WF_vars(ReconcileFinish(w, FALSE))
    /\ \A w \in Workers : WF_vars(UpdateStatus(w, FALSE))
    /\ WF_vars(\E j \in jobs : JobSucceeds(j))

SpecDriver == Init /\ [][NextDriver]_vars /\ DriverFairness

\* The Driver with calls that may fail: passes gated by IsReconcilable, in
\* which any store or renderer call may fail, a status update that may fail,
\* and, as fairness, ever again a pass for every instance in which no call
\* fails.
NextDriverFaulty ==
    \/ \E w \in Workers, i \in Names : DriverPass(w, i, TRUE)
    \/ \E w \in Workers : ReconcileGet(w, TRUE)
    \/ \E w \in Workers : ReconcileFinish(w, TRUE)
    \/ \E w \in Workers : UpdateStatus(w, TRUE)
    \/ \E j \in jobs : JobSucceeds(j)
    \/ \E j \in jobs : JobFails(j)
    \/ \E j \in jobs : JobRemoved(j)

SpecDriverFaulty == Init /\ [][NextDriverFaulty]_vars /\ DriverFairness

(***************************************************************************)
(* Properties.  They read the record of the last call: the state right     *)
(* after a call to the component returned, with what the pass's Get saw,   *)
(* the job the instance had in the store right before the step that        *)
(* returned, and the conditions of the instance the call was made with     *)
(* and of the instance it returned to the Driver.                          *)
(***************************************************************************)
\* The calls named name that the last pass issued.
Issued(name) == {k \in 1..Len(last.calls) : last.calls[k].call = name}

\* The last pass issued a call named name that returned result.
Returned(name, result) ==
    \E k \in Issued(name) : last.calls[k].result = result

\* Whether a list of conditions holds one of type "Created".
HasCreated(conditions) ==
    \E k \in 1..Len(conditions) :
        conditions[k].type = OdooInstanceStatusConditionTypeCreated

\* The status of the "Created" condition in a list of conditions.
CreatedStatus(conditions) ==
    GetStatusCondition(conditions, OdooInstanceStatusConditionTypeCreated).status

\* The last call was a Reconcile pass.
Reconciled == last.op = "Reconcile"

\* The last pass looked the job up and the store answered NotFound.
SawNoJob == Reconciled /\ Returned("Get", "NotFound")

\* The last pass looked the job up and found it.
SawJob == Reconciled /\ Returned("Get", Nil)

\* No call of the last pass failed (NotFound is the answer of a Get that
\* worked).
NoCallFailed ==
    \A k \in 1..Len(last.calls) : last.calls[k].result \in {Nil, "NotFound"}

\* The parents the selector of the last call's instance matches.
Parents(i) == List(instances[i].namespace, MatchingLabels(instances[i]))

\* C1: IsReconcilable returns true exactly when the instance has a parent
\* hostname and no condition of type "Created"; so it returns false for every
\* instance without parent hostname and for every instance whose "Created" is
\* set, whatever its parent hostname.
C1_IsReconcilableExactly ==
    last.op = "IsReconcilable" =>
        (last.reconcilable <=>
            (/\ instances[last.instance].parentHostname # Nil
             /\ ~HasCreated(instances[last.instance].conditions)))

\* IsReconcilable answered false for an instance that has a parent hostname
\* and whose "Created" condition is set.
C1_Witness ==
    /\ last.op = "IsReconcilable"
    /\ ~last.reconcilable
    /\ instances[last.instance].parentHostname # Nil
    /\ HasCreated(instances[last.instance].conditions)

\* What C2 says a pass in the job-not-found branch does: exactly one Create,
\* the job in the store owned by the instance, "Created" = "initiated", no
\* error and no requeue.
JobCreatedByPass ==
    /\ Cardinality(Issued("Create")) = 1
    /\ Cardinality(JobsOwnedBy(last.instance)) = 1
    /\ \A j \in JobsOwnedBy(last.instance) :
         /\ j.name = "copier-" \o last.instance
         /\ j.namespace = instances[last.instance].namespace
         /\ \E p \in Parents(last.instance) : j.fromDatabase = instances[p].hostname
    /\ CreatedStatus(last.after) = "initiated"
    /\ last.err = Nil
    /\ last.requeue = FALSE

\* C2 as stated: with one matching parent, a successful render and no job
\* under the rendered name, every pass creates the job, owned by the instance,
\* sets "Created" to "initiated" and returns no error and no requeue.
C2_Original == SawNoJob => JobCreatedByPass

\* C2 as amended: with one matching parent, a successful render and no job
\* under the rendered name, a pass whose SetControllerReference and Create
\* calls succeed issues exactly one Create, the created job is owned by the
\* instance, "Created" is "initiated" and the pass returns no error and no
\* requeue.
C2_CreateSucceeds == (SawNoJob /\ NoCallFailed) => JobCreatedByPass

\* A pass found no job and its Create succeeded.
C2_Witness == SawNoJob /\ Returned("Create", Nil)

\* C3: in every state at most one job owned by an instance is in the store,
\* and a pass whose Get finds the job of its instance issues no Create.
C3_AtMostOneJob ==
    /\ \A i \in Names : Cardinality(JobsOwnedBy(i)) <= 1
    /\ (Reconciled /\ last.seen # {}) => Issued("Create") = {}

\* A second pass found, through Get, the job an earlier pass created.
C3_Witness == SawJob /\ last.seen # {} /\ Issued("Create") = {}

\* C4: a pass that finds a job with success count > 0 sets "Created" to
\* "succeeded", then issues exactly one Delete, with background propagation;
\* when the Delete succeeds the pass returns no error and no requeue and the
\* job is gone.
C4_SuccessDeletesJob ==
    (SawJob /\ \E j \in last.seen : j.succeeded > 0) =>
        /\ CreatedStatus(last.after) = "succeeded"
        /\ Cardinality(Issued("Delete")) = 1
        /\ \A d \in Issued("Delete") :
             /\ last.calls[d].arg = "Background"
             /\ \E c \in Issued("SetStatusCondition") :
                  c < d /\ last.calls[c].arg = "succeeded"
        /\ Returned("Delete", Nil) =>
             /\ last.err = Nil
             /\ last.requeue = FALSE
             /\ JobsOwnedBy(last.instance) = {}

\* A pass found a succeeded job and deleted it.
C4_Witness ==
    /\ SawJob
    /\ \E j \in last.seen : j.succeeded > 0
    /\ Returned("Delete", Nil)

\* C5 as stated: once a pass has marked "Created" as succeeded and deleted
\* the job, a repeated Reconcile call (here: one in which no call fails)
\* creates no job, leaves "Created" at "succeeded", and returns no error.
C5_TerminalStateIdempotent ==
    (/\ Reconciled
     /\ NoCallFailed
     /\ HasCreated(last.conditions)
     /\ CreatedStatus(last.conditions) = "succeeded"
     /\ SawNoJob) =>
        /\ Issued("Create") = {}
        /\ JobsOwnedBy(last.instance) = {}
        /\ CreatedStatus(last.after) = "succeeded"
        /\ last.err = Nil

\* C6 as stated: under the fair Driver, with calls that succeed, an eligible
\* instance with exactly one matching parent eventually has "Created" =
\* "succeeded" and no job left.
C6_EventuallySucceeded ==
    \A i \in Names :
        (IsReconcilable(instances[i]) /\ Cardinality(Parents(i)) = 1)
            ~> (/\ HasCreated(instances[i].conditions)
                /\ CreatedStatus(instances[i].conditions) = "succeeded"
                /\ JobsOwnedBy(i) = {})

\* C7: a pass that finds a job with failure count > 0 and success count 0
\* issues no Create and no Delete, leaves the job and the instance's
\* conditions as they were, and returns no error and no requeue.
C7_FailedJobUntouched ==
    (SawJob /\ \E j \in last.seen : j.failed > 0 /\ j.succeeded = 0) =>
        /\ Issued("Create") = {}
        /\ Issued("Delete") = {}
        /\ Issued("SetStatusCondition") = {}
        /\ JobsOwnedBy(last.instance) = last.job
        /\ last.after = last.conditions
        /\ last.err = Nil
        /\ last.requeue = FALSE

\* A pass found a failed job.
C7_Witness ==
    /\ SawJob
    /\ \E j \in last.seen : j.failed > 0 /\ j.succeeded = 0
    /\ last.logged

\* C8: a pass whose List matches no parent returns requeue = true with the
\* parent-not-found error, issues no Get, Create or Delete, and leaves the
\* instance's conditions unchanged.
C8_NoParentRequeues ==
    (/\ Reconciled
     /\ Returned("List", Nil)
     /\ Cardinality(Parents(last.instance)) = 0) =>
        /\ last.requeue = TRUE
        /\ last.err = "No parent instance found"
        /\ Issued("Get") = {} /\ Issued("Create") = {} /\ Issued("Delete") = {}
        /\ Issued("SetStatusCondition") = {}
        /\ last.after = last.conditions
        /\ JobsOwnedBy(last.instance) = last.job

\* A pass listed the parents and found none.
C8_Witness ==
    /\ Reconciled
    /\ Returned("List", Nil)
    /\ Cardinality(Parents(last.instance)) = 0

\* C9: a pass whose List matches two or more parents returns the
\* conflicting-parent error with requeue = false, issues no Create or Delete,
\* and leaves the instance's conditions unchanged.
C9_ConflictingParents ==
    (/\ Reconciled
     /\ Returned("List", Nil)
     /\ Cardinality(Parents(last.instance)) >= 2) =>
        /\ last.requeue = FALSE
        /\ last.err = "more than one parent instance found"
        /\ Issued("Create") = {} /\ Issued("Delete") = {}
        /\ Issued("SetStatusCondition") = {}
        /\ last.after = last.conditions
        /\ JobsOwnedBy(last.instance) = last.job

\* A pass listed the parents and found two.
C9_Witness ==
    /\ Reconciled
    /\ Returned("List", Nil)
    /\ Cardinality(Parents(last.instance)) >= 2

\* The last pass issued a Create, and it failed.
CreateFailedInPass ==
    Reconciled /\ \E k \in Issued("Create") : last.calls[k].result # Nil

\* C10 as stated: when the Create fails, as it does when another pass took
\* the job's name between the Get and the Create, the pass returns requeue =
\* true and does not hand the creation error to the Driver.
C10_CreateFailureDowngraded ==
    CreateFailedInPass => (last.requeue = TRUE /\ last.err = Nil)

\* A call of the last pass failed with an error that is not the pass's own:
\* the List, the render, or the Get with another error than NotFound.
LookupFailed ==
    /\ Reconciled
    /\ \/ \E k \in Issued("List") : last.calls[k].result # Nil
       \/ \E k \in Issued("GetTemplate") : last.calls[k].result # Nil
       \/ \E k \in Issued("Get") : last.calls[k].result \notin {Nil, "NotFound"}

\* C12: when List fails, when the render fails, or when Get fails with an
\* error other than NotFound, the pass returns that very error with requeue =
\* false, issues no Create or Delete, and leaves the conditions unchanged.
C12_LookupErrorsReturned ==
    LookupFailed =>
        /\ last.err = last.calls[Len(last.calls)].result
        /\ last.calls[Len(last.calls)].call \in {"List", "GetTemplate", "Get"}
        /\ last.requeue = FALSE
        /\ Issued("Create") = {} /\ Issued("Delete") = {}
        /\ Issued("SetStatusCondition") = {}
        /\ last.after = last.conditions
        /\ JobsOwnedBy(last.instance) = last.job

\* A pass whose Get failed with a store error while the instance had its job.
C12_Witness ==
    /\ Reconciled
    /\ Returned("Get", "Timeout")
    /\ last.job # {}

\* C14: a pass that finds a job with success count 0 and failure count 0
\* issues no Create and no Delete, leaves the job and the instance's
\* conditions as they were, and returns no error and no requeue.
C14_RunningJobUntouched ==
    (SawJob /\ \E j \in last.seen : j.succeeded = 0 /\ j.failed = 0) =>
        /\ Issued("Create") = {}
        /\ Issued("Delete") = {}
        /\ Issued("SetStatusCondition") = {}
        /\ JobsOwnedBy(last.instance) = last.job
        /\ last.after = last.conditions
        /\ last.err = Nil
        /\ last.requeue = FALSE

\* A pass found a job that is still running.
C14_Witness ==
    /\ SawJob
    /\ \E j \in last.seen : j.succeeded = 0 /\ j.failed = 0
    /\ ~last.logged

\* C15: a pass issues at most one List, one render, one Get, and at most one
\* mutating store call: never both a Create and a Delete, never two of either.
C15_CallsPerPass ==
    Reconciled =>
        /\ Cardinality(Issued("List")) <= 1
        /\ Cardinality(Issued("GetTemplate")) <= 1
        /\ Cardinality(Issued("Get")) <= 1
        /\ Cardinality(Issued("Create")) + Cardinality(Issued("Delete")) <= 1

\* A pass issued its List, render, Get and a Delete that failed.
C15_Witness ==
    /\ Reconciled
    /\ Issued("List") # {} /\ Issued("GetTemplate") # {} /\ Issued("Get") # {}
    /\ Returned("Delete", "Timeout")

\* C16: an IsReconcilable call issues no store call and leaves every
\* instance and every job as it was.
C16_IsReconcilablePure ==
    [][last'.op = "IsReconcilable" =>
          /\ last'.calls = <<>>
          /\ instances' = instances
          /\ jobs' = jobs
          /\ last'.reconcilable = IsReconcilable(instances'[last'.instance])]_vars

\* IsReconcilable was asked about an instance whose job is in the store.
C16_Witness ==
    /\ last.op = "IsReconcilable"
    /\ last.job # {}
    /\ HasCreated(instances[last.instance].conditions)

\* The last pass went into the job-not-found branch and its
\* SetControllerReference or its Create failed.
CreateBranchFailed ==
    /\ SawNoJob
    /\ \/ \E k \in Issued("SetControllerReference") : last.calls[k].result # Nil
       \/ \E k \in Issued("Create") : last.calls[k].result # Nil

\* C18: in the job-not-found branch "Created" is set to "initiated" before
\* the owner reference is set and before Create is issued, and it stays when
\* one of them fails: the instance the pass returns then carries "Created" =
\* "initiated", the pass created no job (the store holds the jobs it held
\* before the pass returned), and IsReconcilable answers false on that
\* instance, as it does on the instance of the store once the Driver stored
\* the status.
C18_MarkedBeforeCreate ==
    /\ SawNoJob =>
         \E c \in Issued("SetStatusCondition") :
            /\ last.calls[c].arg = "initiated"
            /\ \A k \in Issued("SetControllerReference") \cup Issued("Create") : c < k
    /\ CreateBranchFailed =>
         /\ CreatedStatus(last.after) = "initiated"
         /\ ~IsReconcilable([instances[last.instance] EXCEPT
                                !.conditions = last.after])
         /\ JobsOwnedBy(last.instance) = last.job
    /\ last.op = "UpdateStatus" =>
         /\ instances[last.instance].conditions = last.after
         /\ ~IsReconcilable(instances[last.instance])

\* A pass whose Create failed with a store error left the instance marked.
C18_Witness ==
    /\ SawNoJob
    /\ Returned("Create", "Timeout")
    /\ CreatedStatus(last.after) = "initiated"
    /\ JobsOwnedBy(last.instance) = {}

\* C19: a pass that finds a job with success count > 0 and failure count > 0
\* takes the success path: "Created" = "succeeded" and the job deleted, not
\* left in place.
C19_SuccessBeforeFailure ==
    (SawJob /\ \E j \in last.seen : j.succeeded > 0 /\ j.failed > 0) =>
        /\ CreatedStatus(last.after) = "succeeded"
        /\ Cardinality(Issued("Delete")) = 1
        /\ Returned("Delete", Nil) => JobsOwnedBy(last.instance) = {}

\* A pass deleted a job that had both succeeded and failed.
C19_Witness ==
    /\ SawJob
    /\ \E j \in last.seen : j.succeeded > 0 /\ j.failed > 0
    /\ Returned("Delete", Nil)
    /\ JobsOwnedBy(last.instance) = {}

\* A condition of another type than "Created".
NotCreated(c) == c.type # OdooInstanceStatusConditionTypeCreated

\* C20: a pass for instance i changes no instance of the store and creates
\* or deletes no job but the one derived from i; the instance it returns
\* differs from the one of the store in the "Created" condition only, and
\* storing its status changes of the store only that condition of i.
C20_PassTouchesOnlyItsOwn ==
    [][/\ last'.op = "Reconcile" =>
            LET i == last'.instance IN
            /\ instances' = instances
            /\ SelectSeq(last'.after, NotCreated)
                  = SelectSeq(last'.conditions, NotCreated)
            /\ {j \in jobs' : j.name # "copier-" \o i}
                  = {j \in jobs : j.name # "copier-" \o i}
       /\ last'.op \in {"UpdateStatus", "UpdateStatusFailed"} =>
            LET i == last'.instance IN
            /\ \A n \in Names \ {i} : instances'[n] = instances[n]
            /\ [instances'[i] EXCEPT !.conditions = instances[i].conditions]
                  = instances[i]
            /\ SelectSeq(instances'[i].conditions, NotCreated)
                  = SelectSeq(instances[i].conditions, NotCreated)
            /\ jobs' = jobs]_vars

\* A pass deleted its job while another instance's job was in the same
\* namespace.
C20_Witness ==
    /\ Reconciled
    /\ Returned("Delete", Nil)
    /\ \E j \in jobs : /\ j.owner # last.instance
                       /\ j.namespace = instances[last.instance].namespace

\* C13: under the Driver, which runs Reconcile only when IsReconcilable
\* answers true, no pass is entered for an instance without parent hostname
\* (so the nil parent hostname is never dereferenced), and no job owned by
\* such an instance is ever in the store.
C13_NoJobForRoot ==
    /\ \A j \in jobs : instances[j.owner].parentHostname # Nil
    /\ last.op \in {"Reconcile", "UpdateStatus", "UpdateStatusFailed"} =>
         /\ instances[last.instance].parentHostname # Nil
         /\ last.err # "panic: nil pointer dereference"

\* The Driver skipped a root instance while copy jobs were in the store.
C13_Witness ==
    /\ last.op = "IsReconcilable"
    /\ instances[last.instance].parentHostname = Nil
    /\ ~HasCreated(instances[last.instance].conditions)
    /\ ~last.reconcilable
    /\ jobs # {}

\* The last pass issued the Delete of a succeeded job, and it failed.
DeleteFailedInPass ==
    Reconciled /\ \E k \in Issued("Delete") : last.calls[k].result # Nil

\* C17 as stated: when the Delete of a succeeded job fails, the pass returns
\* requeue = true with "Created" = "succeeded"; and under the fair Driver,
\* with Deletes that eventually succeed, the job, when it is still present,
\* is eventually deleted.
C17_JobDeletedAfterFailedDelete ==
    /\ [](DeleteFailedInPass =>
            /\ last.requeue = TRUE
            /\ CreatedStatus(last.after) = "succeeded")
    /\ \A i \in Names :
         (DeleteFailedInPass /\ last.instance = i) ~> (JobsOwnedBy(i) = {})

\* C11: the store never holds two jobs of one name and namespace; a pass
\* that saw NotFound and is overtaken by another pass's Create for the same
\* job does not create it a second time: its Create fails, with the name
\* taken or with a store error, and the pass returns requeue = true; the
\* retry of such a pass, the job not having been removed meanwhile, finds
\* the job on Get and issues no Create.
C11_RaceOnCreate ==
    /\ \A j1 \in jobs, j2 \in jobs : JobKey(j1) = JobKey(j2) => j1 = j2
    /\ (Reconciled /\ last.beaten) =>
         /\ ~Returned("Create", Nil)
         /\ Issued("Create") # {} => last.requeue = TRUE
    /\ (Reconciled /\ Returned("Create", AlreadyExists)) => last.requeue = TRUE
    /\ (Reconciled /\ last.lost /\ (SawJob \/ SawNoJob)) =>
         /\ SawJob
         /\ Issued("Create") = {}

\* The retry of a pass that lost the race on Create found the job.
C11_Witness ==
    /\ Reconciled
    /\ last.lost
    /\ SawJob
    /\ Issued("Create") = {}

====
